---------------------------- MODULE Spec2Model ----------------------------
(***************************************************************************)
(* The price oracle handler of arkham-oracle-sdk.                          *)
(*                                                                         *)
(* Two builds of the handler live in the repository:                       *)
(*   "dist" : createOracleHandler + handlePriceRequest                     *)
(*            (src/dist/types/server.d.ts, lines 59-138)                   *)
(*   "src"  : createNextJsAppRouterHandler + the exported                  *)
(*            handlePriceRequest (src/src/server.ts, lines 22-125)         *)
(*                                                                         *)
(* Strings are sequences of one-character strings, an optional string      *)
(* (URLSearchParams.get) is <<>> for null and <<s>> for the string s.      *)
(* A BigInt is [neg, mag] with mag the little-endian base-256 digits of    *)
(* its magnitude, so that 64-bit values keep their full width.             *)
(***************************************************************************)
EXTENDS Integers, Sequences, FiniteSets, TLC

VARIABLES handler, req, clock, enc, twin

vars == <<handler, req, clock, enc, twin>>

-----------------------------------------------------------------------------
(* Bounds of the model *)

\* number of request slots of one handler: the requests that may be in flight
\* together; a slot serves one request after another
MaxReq == 1

\* number of times the wall clock advances
MaxTicks == 1

-----------------------------------------------------------------------------
(* Arbitrary-precision naturals: JavaScript BigInt and integral Numbers *)

ByteBase == 256

RECURSIVE Trim(_)
Trim(m) ==
  IF m = <<>> THEN <<>>
  ELSE IF m[Len(m)] = 0 THEN Trim(SubSeq(m, 1, Len(m) - 1))
  ELSE m

RECURSIVE AddCarry(_, _)
AddCarry(m, c) ==
  IF c = 0 THEN m
  ELSE IF m = <<>> THEN <<c % ByteBase>> \o AddCarry(<<>>, c \div ByteBase)
  ELSE LET v == Head(m) + c
       IN  <<v % ByteBase>> \o AddCarry(Tail(m), v \div ByteBase)

RECURSIVE MulCarry(_, _, _)
MulCarry(m, k, c) ==
  IF m = <<>>
  THEN IF c = 0 THEN <<>> ELSE <<c % ByteBase>> \o MulCarry(<<>>, k, c \div ByteBase)
  ELSE LET v == Head(m) * k + c
       IN  <<v % ByteBase>> \o MulCarry(Tail(m), k, v \div ByteBase)

\* m + n and m * k for a small natural n, k
AddSmall(m, n) == Trim(AddCarry(m, n))
MulSmall(m, k) == Trim(MulCarry(m, k, 0))

\* quotient and remainder of m by a small k > 0 (long division, high digit first);
\* hi ranges over a one-element set so that the division of the higher digits is
\* computed once
RECURSIVE DivMod(_, _)
DivMod(m, k) ==
  IF m = <<>> THEN [q |-> <<>>, r |-> 0]
  ELSE CHOOSE d \in { [q |-> <<(hi.r * ByteBase + Head(m)) \div k>> \o hi.q,
                        r |-> (hi.r * ByteBase + Head(m)) % k] :
                      hi \in {DivMod(Tail(m), k)} } : TRUE

DivSmall(m, k) == Trim(DivMod(m, k).q)
ModSmall(m, k) == DivMod(m, k).r

\* m < 2^(8*n)
FitsBytes(m, n) == Len(Trim(m)) <= n

BigNat(m) == [neg |-> FALSE, mag |-> Trim(m)]
BigNeg(m) == [neg |-> Trim(m) # <<>>, mag |-> Trim(m)]

-----------------------------------------------------------------------------
(* BigInt.prototype.toString(): the decimal string of a BigInt *)

DigitChars == <<"0", "1", "2", "3", "4", "5", "6", "7", "8", "9">>

\* the decimal digits of m > 0; d ranges over a one-element set so that the
\* division by ten is computed once
RECURSIVE DecimalDigits(_)
DecimalDigits(m) ==
  IF m = <<>> THEN <<>>
  ELSE CHOOSE s \in { DecimalDigits(Trim(d.q)) \o <<DigitChars[d.r + 1]>> :
                      d \in {DivMod(m, 10)} } : TRUE

BigIntToString(v) ==
  IF v.mag = <<>> THEN <<"0">>
  ELSE (IF v.neg THEN <<"-">> ELSE <<>>) \o DecimalDigits(v.mag)

-----------------------------------------------------------------------------
(* Buffer: alloc, writeBigUInt64LE, writeBigInt64LE and their readers *)

MessageLength == 16
FieldBytes == 8
PriceOffset == 0
TimestampOffset == 8

BufferAlloc(n) == [i \in 1..n |-> 0]

RECURSIVE LowBytes(_, _)
\* the n low bytes of m, least significant first: m mod 256, then m div 256
LowBytes(m, n) ==
  IF n = 0 THEN <<>>
  ELSE <<ModSmall(m, ByteBase)>> \o LowBytes(DivSmall(m, ByteBase), n - 1)

\* 2^(8n) - m, for 0 < m <= 2^(8n): the two's complement of a negative value
RECURSIVE Complement(_, _)
Complement(bytes, borrowOne) ==
  IF bytes = <<>> THEN <<>>
  ELSE LET inv == (ByteBase - 1) - Head(bytes)
           v   == inv + (IF borrowOne THEN 1 ELSE 0)
       IN  <<v % ByteBase>> \o Complement(Tail(bytes), v >= ByteBase)

TwosComplement(m, n) == Complement(LowBytes(m, n), TRUE)

PutBytes(buf, bytes, offset) ==
  [i \in 1..Len(buf) |->
     IF i > offset /\ i <= offset + Len(bytes) THEN bytes[i - offset] ELSE buf[i]]

\* 0 <= v <= 2^64 - 1
InU64Range(v) == ~v.neg /\ FitsBytes(v.mag, FieldBytes)

\* -2^63 <= v <= 2^63 - 1
InI64Range(v) ==
  LET m == Trim(v.mag)
      top == IF Len(m) = FieldBytes THEN m[FieldBytes] ELSE 0
  IN  /\ FitsBytes(m, FieldBytes)
      /\ \/ top < ByteBase \div 2
         \/ v.neg /\ m = BufferAlloc(FieldBytes - 1) \o <<ByteBase \div 2>>

\* a write without the range check: the value wraps modulo 2^64
WriteBigUInt64LEWrapping(buf, v, offset) ==
  [ok |-> TRUE,
   buf |-> PutBytes(buf,
                    IF v.neg THEN TwosComplement(v.mag, FieldBytes)
                             ELSE LowBytes(v.mag, FieldBytes),
                    offset)]

\* buf.writeBigUInt64LE(v, offset): throws ERR_OUT_OF_RANGE outside the u64 range
WriteBigUInt64LE(buf, v, offset) ==
  IF InU64Range(v)
  THEN [ok |-> TRUE, buf |-> PutBytes(buf, LowBytes(v.mag, FieldBytes), offset)]
  ELSE [ok |-> FALSE, buf |-> buf]

\* buf.writeBigInt64LE(v, offset): throws ERR_OUT_OF_RANGE outside the i64 range
WriteBigInt64LE(buf, v, offset) ==
  IF InI64Range(v)
  THEN [ok |-> TRUE,
        buf |-> PutBytes(buf,
                         IF v.neg THEN TwosComplement(v.mag, FieldBytes)
                                  ELSE LowBytes(v.mag, FieldBytes),
                         offset)]
  ELSE [ok |-> FALSE, buf |-> buf]

RECURSIVE FromLE(_)
\* the natural whose little-endian bytes are given: sum of bytes[i] * 256^(i-1)
FromLE(bytes) ==
  IF bytes = <<>> THEN <<>>
  ELSE AddSmall(MulSmall(FromLE(Tail(bytes)), ByteBase), Head(bytes))

ReadBigUInt64LE(buf, offset) ==
  BigNat(FromLE(SubSeq(buf, offset + 1, offset + FieldBytes)))

ReadBigInt64LE(buf, offset) ==
  LET bytes == SubSeq(buf, offset + 1, offset + FieldBytes)
  IN  IF bytes[FieldBytes] >= ByteBase \div 2
      THEN BigNeg(FromLE(Complement(bytes, TRUE)))
      ELSE BigNat(FromLE(bytes))

\* the two fields written at each other's offset
EncodeMessageSwapped(priceU64, timestampI64) ==
  LET b0 == BufferAlloc(MessageLength)
      w1 == WriteBigUInt64LE(b0, priceU64, TimestampOffset)
      w2 == WriteBigInt64LE(w1.buf, timestampI64, PriceOffset)
  IN  IF ~w1.ok THEN [ok |-> FALSE, buf |-> b0]
      ELSE IF ~w2.ok THEN [ok |-> FALSE, buf |-> w1.buf]
      ELSE [ok |-> TRUE, buf |-> w2.buf]

\* messageBuffer = Buffer.alloc(16); write the price at 0, the timestamp at 8
EncodeMessage(priceU64, timestampI64) ==
  LET b0 == BufferAlloc(MessageLength)
      w1 == WriteBigUInt64LE(b0, priceU64, PriceOffset)
      w2 == WriteBigInt64LE(w1.buf, timestampI64, TimestampOffset)
  IN  IF ~w1.ok THEN [ok |-> FALSE, buf |-> b0]
      ELSE IF ~w2.ok THEN [ok |-> FALSE, buf |-> w1.buf]
      ELSE [ok |-> TRUE, buf |-> w2.buf]

-----------------------------------------------------------------------------
(* Strings and optional values *)

Null == <<>>
Some(v) == <<v>>

\* JavaScript truthiness of a string-or-null: null and "" are falsy
Truthy(opt) == opt # Null /\ opt[1] # <<>>

\* Array.prototype.includes on an array of strings: strict equality
Includes(items, s) == \E i \in 1..Len(items) : items[i] = s

RECURSIVE Split(_, _)
\* String.prototype.split(sep) for a one-character separator
Split(s, sep) ==
  IF \A i \in 1..Len(s) : s[i] # sep THEN <<s>>
  ELSE LET i == CHOOSE j \in 1..Len(s) : s[j] = sep /\ \A k \in 1..(j - 1) : s[k] # sep
       IN  <<SubSeq(s, 1, i - 1)>> \o Split(SubSeq(s, i + 1, Len(s)), sep)

-----------------------------------------------------------------------------
(* The 64-byte key and the cryptographic primitives *)

KeyLength == 64
SeedLength == 32

\* a key of len bytes; a fills bytes [0,32), b the rest
KeyBytes(len, a, b) ==
  [i \in 1..len |-> IF i <= SeedLength THEN (a + i) % ByteBase ELSE (b + i) % ByteBase]

\* Uint8Array.prototype.slice(0, 32)
Slice(bytes, from, to) ==
  SubSeq(bytes, from + 1, IF to < Len(bytes) THEN to ELSE Len(bytes))

\* new Uint8Array(array of numbers): each element is taken modulo 256
ToUint8Array(items) == [i \in 1..Len(items) |-> items[i] % ByteBase]

\* js-sha3 keccak256.digest: a collision-free function of the message
Keccak256(message) == [alg |-> "keccak256", input |-> message]

NoDigest == [alg |-> "none", input |-> <<>>]

\* @noble/ed25519 sign(message, privateKey): deterministic in (digest, seed);
\* rejects a private key that is not 32 bytes
SignAccepts(seed) == Len(seed) = SeedLength
Ed25519Sign(digest, seed) == [alg |-> "ed25519", digest |-> digest, seed |-> seed]

NoSignature == [alg |-> "none", digest |-> NoDigest, seed |-> <<>>]

\* Buffer.from(signature).toString('hex')
ToHex(sig) == [encoding |-> "hex", data |-> sig]
NoHex == [encoding |-> "none", data |-> NoSignature]

-----------------------------------------------------------------------------
(* Numbers: the upstream price and its quantization *)

ScalingFactor == 1000000

\* A float64 price: sign, whole dollars, six decimals, and how the rest of the
\* fraction compares with half a micro-dollar; finite = FALSE is +-Infinity
\* (JSON.parse yields Infinity for a literal such as 1e999).
PriceFloat(neg, whole, micros, frac) ==
  [finite |-> TRUE, neg |-> neg, whole |-> Trim(whole), micros |-> micros, frac |-> frac]

PriceInfinity == [finite |-> FALSE, neg |-> FALSE, whole |-> <<>>, micros |-> 0, frac |-> "zero"]

\* priceFloat * 1_000_000
Scale(p) ==
  [finite |-> p.finite, neg |-> p.neg,
   int |-> AddSmall(MulSmall(p.whole, ScalingFactor), p.micros), frac |-> p.frac]

\* Math.round: to the nearest integer, a tie towards +Infinity
MathRound(x) ==
  [finite |-> x.finite, neg |-> x.neg,
   int |-> IF x.neg
           THEN (IF x.frac = "above" THEN AddSmall(x.int, 1) ELSE x.int)
           ELSE (IF x.frac \in {"half", "above"} THEN AddSmall(x.int, 1) ELSE x.int)]

\* BigInt(number): RangeError unless the number is a finite integer; -0 gives 0n
ToBigInt(x) ==
  IF x.finite THEN [ok |-> TRUE, value |-> IF x.neg THEN BigNeg(x.int) ELSE BigNat(x.int)]
  ELSE [ok |-> FALSE, value |-> BigNat(<<>>)]

\* priceU64 = BigInt(Math.round(priceFloat * 1_000_000))
Quantize(priceFloat) == ToBigInt(MathRound(Scale(priceFloat)))

MsPerSecond == 1000

\* timestampI64 = BigInt(Math.floor(Date.now() / 1000))
TimestampOf(nowMs) == BigNat(DivSmall(nowMs, MsPerSecond))

-----------------------------------------------------------------------------
(* Responses *)

NoMessage == [text |-> "", status |-> -1, token |-> <<>>, rest |-> ""]

\* the text `${text}${status}${token}${rest}` of an Error or of a response body
Message(text, status, token, rest) ==
  [text |-> text, status |-> status, token |-> token, rest |-> rest]

Response(status, prefix, message, price, timestamp, signature) ==
  [status |-> status,
   error |-> [prefix |-> prefix, message |-> message],
   price |-> price, timestamp |-> timestamp, signature |-> signature]

NoResponse == Response(0, "", NoMessage, <<>>, <<>>, NoHex)

Unauthorized == Response(401, "", Message("Unauthorized", -1, <<>>, ""), <<>>, <<>>, NoHex)

TokenRequired ==
  Response(400, "", Message("Token parameter is required", -1, <<>>, ""), <<>>, <<>>, NoHex)

\* the catch block: every error thrown in the try block becomes a 500 response
InternalServerError(message) ==
  Response(500, "Internal Server Error: ", message, <<>>, <<>>, NoHex)

\* the payload with the two decimal fields exchanged
SignedPriceDataSwapped(priceU64, timestampI64, signature) ==
  Response(200, "", NoMessage,
           BigIntToString(timestampI64), BigIntToString(priceU64), ToHex(signature))

\* responsePayload: decimal strings of the two BigInts, hex of the signature
SignedPriceData(priceU64, timestampI64, signature) ==
  Response(200, "", NoMessage,
           BigIntToString(priceU64), BigIntToString(timestampI64), ToHex(signature))

-----------------------------------------------------------------------------
(* Handler construction *)

Options(key, trusted, url) ==
  [oraclePrivateKey |-> key, trustedClientKeys |-> trusted, dataSourceUrl |-> url]

NoOptions == Options(Null, Null, "")

NoHandler == [state |-> "none", variant |-> "none", options |-> NoOptions, error |-> ""]

Ready(variant, options) ==
  [state |-> "ready", variant |-> variant, options |-> options, error |-> ""]

Failed(variant, error) ==
  [state |-> "failed", variant |-> variant, options |-> NoOptions, error |-> error]

\* dist: createOracleHandler(options)
createOracleHandler(options) ==
  IF options.oraclePrivateKey = Null \/ Len(options.oraclePrivateKey[1]) # KeyLength
  THEN Failed("dist", "A 64-byte 'oraclePrivateKey' must be provided in the handler options.")
  ELSE Ready("dist", options)

\* src: parseKey(keyString); the string is given by what JSON.parse makes of it
parseKey(keyString) ==
  IF keyString.json = "array"
  THEN [ok |-> TRUE, key |-> ToUint8Array(keyString.items)]
  ELSE [ok |-> FALSE, key |-> <<>>]

\* src: createNextJsAppRouterHandler(env)
createNextJsAppRouterHandler(env) ==
  IF \/ env.oraclePrivateKey = Null \/ env.oraclePrivateKey[1].json = "empty"
     \/ ~Truthy(env.trustedClientKeys)
  THEN Failed("src", "Missing ORACLE_PRIVATE_KEY or TRUSTED_CLIENT_KEYS environment variables.")
  ELSE LET parsed == parseKey(env.oraclePrivateKey[1])
       IN  IF ~parsed.ok
           THEN Failed("src", "Invalid private key format. Expected a JSON array of numbers.")
           ELSE Ready("src", Options(Some(parsed.key),
                                     Some(Split(env.trustedClientKeys[1], ",")), ""))

-----------------------------------------------------------------------------
(* handlePriceRequest, step by step; a step ends where the code awaits *)

CoinGeckoUrl == "https://api.coingecko.com/api/v3/simple/price"

NoUrl == [base |-> "", ids |-> <<>>]

\* the URL of the upstream fetch
PriceUrl(variant, options, token) ==
  IF variant = "dist" /\ options.dataSourceUrl # ""
  THEN [base |-> options.dataSourceUrl, ids |-> token]
  ELSE [base |-> CoinGeckoUrl, ids |-> token]

\* the gate without `!trustedClientKey ||`: only membership decides
AuthDeniedDistNoFalsyTest(options, cred) ==
  /\ options.trustedClientKeys # Null
  /\ Len(options.trustedClientKeys[1]) > 0
  /\ (cred = Null \/ ~Includes(options.trustedClientKeys[1], cred[1]))

\* dist lines 64-68: the gate is skipped when trustedClientKeys is omitted or empty
AuthDeniedDist(options, cred) ==
  /\ options.trustedClientKeys # Null
  /\ Len(options.trustedClientKeys[1]) > 0
  /\ (~Truthy(cred) \/ ~Includes(options.trustedClientKeys[1], cred[1]))

\* src line 47
AuthDeniedSrc(options, cred) ==
  ~Truthy(cred) \/ ~Includes(options.trustedClientKeys[1], cred[1])

AuthDenied(variant, options, cred) ==
  IF variant = "dist" THEN AuthDeniedDist(options, cred) ELSE AuthDeniedSrc(options, cred)

\* a test for null only: the empty token passes
TokenMissingNullOnly(token) == token = Null

\* if (!token)
TokenMissing(token) == ~Truthy(token)

StatusFailed(variant, status) ==
  Message(IF variant = "dist" THEN "Data source API failed with status: "
                              ELSE "CoinGecko API failed with status: ",
          status, <<>>, "")

PriceNotFound(variant, token) ==
  Message("Price for token '", -1, token,
          IF variant = "dist" THEN "' not found in data source response"
                              ELSE "' not found in CoinGecko response")

LibraryError(text) == Message(text, -1, <<>>, "")

\* the value of data[token]?.usd: its typeof and, for a number, the number
Undefined == [type |-> "undefined", value |-> PriceInfinity]

\* no settlement yet
NoFetch == [rejected |-> FALSE, status |-> 0]
NoJson == [rejected |-> FALSE, data |-> [kind |-> "none", entries |-> <<>>]]

\* The locals of one call of handlePriceRequest. fetches, keyReads, clockReads and
\* signCalls count the calls of fetch, the reads of options.oraclePrivateKey, the
\* calls of Date.now and of sign; upstreamStatus is response.status and body
\* what response.json() made of the body ("invalid", "null" or "object").
\* receivedAt is the instant, in milliseconds, at which response.json() settled,
\* fetched what fetch settled with and parsed what response.json() settled with:
\* the handler does not keep them, they are recorded for the statements about
\* time and about what a request was given.
IdleRequest ==
  [pc |-> "idle", cred |-> Null, token |-> Null,
   fetches |-> 0, fetchUrl |-> NoUrl, keyReads |-> 0, clockReads |-> 0, signCalls |-> 0,
   upstreamStatus |-> 0, body |-> "", priceFloat |-> Undefined,
   priceU64 |-> BigNat(<<>>), timestampI64 |-> BigNat(<<>>),
   message |-> <<>>, digest |-> NoDigest, seed |-> <<>>,
   receivedAt |-> <<>>, fetched |-> NoFetch, parsed |-> NoJson,
   thrown |-> FALSE, response |-> NoResponse]

\* return new Response(...)
Return(q, response) == [q EXCEPT !.pc = "done", !.response = response]

\* no catch block: the error leaves the handler, no response is made
CatchRethrow(q, message) == [q EXCEPT !.pc = "done", !.thrown = TRUE]

\* catch (error) { ... return new Response(..., { status: 500 }) }
Catch(q, message) == Return(q, InternalServerError(message))

\* the fetch issued before the gate and the token test
StartRequestFetchFirst(h, cred, token) ==
  LET q == [IdleRequest EXCEPT !.cred = cred, !.token = token, !.fetches = @ + 1]
  IN  IF AuthDenied(h.variant, h.options, cred) THEN Return(q, Unauthorized)
      ELSE IF TokenMissing(token) THEN Return(q, TokenRequired)
      ELSE [q EXCEPT !.pc = "fetching",
                     !.fetchUrl = PriceUrl(h.variant, h.options, token[1])]

\* from the reading of the query parameters to `await fetch(...)`
StartRequest(h, cred, token) ==
  LET q == [IdleRequest EXCEPT !.cred = cred, !.token = token]
  IN  IF AuthDenied(h.variant, h.options, cred) THEN Return(q, Unauthorized)
      ELSE IF TokenMissing(token) THEN Return(q, TokenRequired)
      ELSE [q EXCEPT !.pc = "fetching",
                     !.fetches = @ + 1,
                     !.fetchUrl = PriceUrl(h.variant, h.options, token[1])]

\* response.ok: a status in the range 200-299
ResponseOk(status) == status >= 200 /\ status <= 299

\* a failed fetch tried once more
FetchSettledRetry(h, q, outcome) ==
  IF (outcome.rejected \/ ~ResponseOk(outcome.status)) /\ q.fetches < 2
  THEN [q EXCEPT !.fetches = @ + 1]
  ELSE IF outcome.rejected THEN Catch(q, LibraryError("fetch failed"))
  ELSE IF ~ResponseOk(outcome.status)
  THEN Catch([q EXCEPT !.upstreamStatus = outcome.status],
             StatusFailed(h.variant, outcome.status))
  ELSE [q EXCEPT !.pc = "parsing", !.upstreamStatus = outcome.status]

\* fetch settles: from `if (!response.ok)` to `await response.json()`
FetchSettled(h, q, outcome) ==
  IF outcome.rejected THEN Catch(q, LibraryError("fetch failed"))
  ELSE IF ~ResponseOk(outcome.status)
  THEN Catch([q EXCEPT !.upstreamStatus = outcome.status],
             StatusFailed(h.variant, outcome.status))
  ELSE [q EXCEPT !.pc = "parsing", !.upstreamStatus = outcome.status]

\* data[token]?.usd for a non-null data
UsdOf(data, token) ==
  IF \E i \in 1..Len(data.entries) : data.entries[i].key = token
  THEN LET i == CHOOSE j \in 1..Len(data.entries) : data.entries[j].key = token
       IN  data.entries[i].usd
  ELSE Undefined

\* the second half of the key taken as the seed: slice(32, 64)
PrivateKeySeedSecondHalf(options) ==
  Slice(options.oraclePrivateKey[1], SeedLength, KeyLength)

\* const privateKeySeed = options.oraclePrivateKey.slice(0, 32)
PrivateKeySeed(options) == Slice(options.oraclePrivateKey[1], 0, SeedLength)

\* Date.now() called before the typeof test of the price
JsonSettledClockFirst(h, q, outcome, nowMs) ==
  IF outcome.rejected
  THEN Catch([q EXCEPT !.body = "invalid"], LibraryError("Unexpected token in JSON"))
  ELSE IF outcome.data.kind = "null"
  THEN Catch([q EXCEPT !.body = "null"], LibraryError("Cannot read properties of null"))
  ELSE
    LET priceFloat == UsdOf(outcome.data, q.token[1])
        price == Quantize(priceFloat.value)
        timestampI64 == TimestampOf(nowMs)
        written == EncodeMessage(price.value, timestampI64)
        q1 == [q EXCEPT !.body = "object", !.priceFloat = priceFloat,
                        !.timestampI64 = timestampI64, !.clockReads = @ + 1]
    IN  IF priceFloat.type # "number" THEN Catch(q1, PriceNotFound(h.variant, q.token[1]))
        ELSE IF ~price.ok
        THEN Catch(q1, LibraryError("The number cannot be converted to a BigInt"))
        ELSE IF ~written.ok
        THEN Catch([q1 EXCEPT !.priceU64 = price.value],
                   LibraryError("The value of \"value\" is out of range."))
        ELSE [q1 EXCEPT !.pc = "signing",
                       !.priceU64 = price.value,
                       !.message = written.buf,
                       !.digest = Keccak256(written.buf),
                       !.keyReads = @ + 1,
                       !.seed = PrivateKeySeed(h.options),
                       !.signCalls = @ + 1]

\* json settles: from `data[token]?.usd` to `await sign(...)`
JsonSettled(h, q, outcome, nowMs) ==
  IF outcome.rejected
  THEN Catch([q EXCEPT !.body = "invalid"], LibraryError("Unexpected token in JSON"))
  ELSE IF outcome.data.kind = "null"
  THEN Catch([q EXCEPT !.body = "null"], LibraryError("Cannot read properties of null"))
  ELSE
    LET priceFloat == UsdOf(outcome.data, q.token[1])
        price == Quantize(priceFloat.value)
        timestampI64 == TimestampOf(nowMs)
        written == EncodeMessage(price.value, timestampI64)
        q1 == [q EXCEPT !.body = "object", !.priceFloat = priceFloat]
    IN  IF priceFloat.type # "number" THEN Catch(q1, PriceNotFound(h.variant, q.token[1]))
        ELSE IF ~price.ok
        THEN Catch(q1, LibraryError("The number cannot be converted to a BigInt"))
        ELSE IF ~written.ok
        THEN Catch([q1 EXCEPT !.priceU64 = price.value,
                             !.timestampI64 = timestampI64,
                             !.clockReads = @ + 1],
                   LibraryError("The value of \"value\" is out of range."))
        ELSE [q1 EXCEPT !.pc = "signing",
                       !.priceU64 = price.value,
                       !.timestampI64 = timestampI64,
                       !.clockReads = @ + 1,
                       !.message = written.buf,
                       !.digest = Keccak256(written.buf),
                       !.keyReads = @ + 1,
                       !.seed = PrivateKeySeed(h.options),
                       !.signCalls = @ + 1]

\* sign settles: from the assembly of responsePayload to the return
SignSettled(h, q) ==
  IF ~SignAccepts(q.seed) THEN Catch(q, LibraryError("private key of 32 bytes expected"))
  ELSE Return(q, SignedPriceData(q.priceU64, q.timestampI64, Ed25519Sign(q.digest, q.seed)))

-----------------------------------------------------------------------------
(* Inputs *)

K1 == <<"k", "1">>
K2 == <<"k", "2">>
UpperK1 == <<"K", "1">>
Solana == <<"s", "o", "l">>
Bitcoin == <<"b", "t", "c">>

\* the trustedClientKey and token query parameters
Credentials == {Null, Some(<<>>), Some(K1), Some(UpperK1)}
Tokens == {Null, Some(<<>>), Some(Solana)}

KeyA == KeyBytes(KeyLength, 1, 2)

\* JSON texts of ORACLE_PRIVATE_KEY; one element of the 64 is written as 256 + 7
KeyJsonA == [json |-> "array", items |-> [i \in 1..KeyLength |-> IF i = 1 THEN ByteBase + 7 ELSE i]]
KeyJsonShort == [json |-> "array", items |-> <<1, 2, 3>>]
KeyJsonInvalid == [json |-> "invalid", items |-> <<>>]
KeyJsonEmpty == [json |-> "empty", items |-> <<>>]

CustomUrl == "https://prices.example/api"

\* options given to createOracleHandler
DistOptions ==
  { Options(Null, Null, ""),
    Options(Some(KeyBytes(KeyLength - 1, 1, 2)), Null, ""),
    Options(Some(KeyBytes(KeyLength + 1, 1, 2)), Some(<<K1>>), ""),
    Options(Some(KeyA), Null, ""),
    Options(Some(KeyA), Some(<<>>), CustomUrl),
    Options(Some(KeyA), Some(<<K1, K2>>), ""),
    Options(Some(KeyA), Some(<<K1, <<>>>>), "") }

Env(key, trusted) == [oraclePrivateKey |-> key, trustedClientKeys |-> trusted]

\* environments given to createNextJsAppRouterHandler
SrcEnvs ==
  { Env(Null, Some(K1)),
    Env(Some(KeyJsonEmpty), Some(K1)),
    Env(Some(KeyJsonA), Null),
    Env(Some(KeyJsonA), Some(<<>>)),
    Env(Some(KeyJsonInvalid), Some(K1)),
    Env(Some(KeyJsonA), Some(K1 \o <<",">> \o K2)),
    Env(Some(KeyJsonA), Some(K1 \o <<",">>)),
    Env(Some(KeyJsonShort), Some(K1)) }

\* options given to the exported handlePriceRequest of src/server.ts
SrcOptions == { Options(Some(KeyA), Some(<<>>), "") }

\* what the upstream fetch settles with
FetchOutcomes ==
  { [rejected |-> TRUE, status |-> 0],
    [rejected |-> FALSE, status |-> 200],
    [rejected |-> FALSE, status |-> 429] }

Number(p) == [type |-> "number", value |-> p]
Entry(key, usd) == [key |-> key, usd |-> usd]
Object(entries) == [kind |-> "object", entries |-> entries]

Zero == <<>>
\* 18446744073709 dollars: 2^64 micro-dollars is 18446744073709.551616
Whole64 == <<237, 181, 160, 247, 198, 16>>

\* numeric usd values of the upstream response
Prices ==
  { PriceFloat(FALSE, Zero, 0, "zero"),                     \* 0
    PriceFloat(FALSE, <<150>>, 123456, "zero"),             \* 150.123456
    PriceFloat(FALSE, Zero, 0, "half"),                     \* 0.0000005
    PriceFloat(FALSE, <<2>>, 999999, "above"),              \* 2.9999996
    PriceFloat(FALSE, Whole64, 549568, "zero"),             \* (2^64 - 2048) / 10^6
    PriceFloat(FALSE, Whole64, 551616, "zero"),             \* 2^64 / 10^6
    PriceFloat(TRUE, <<1>>, 500000, "zero"),                \* -1.5
    PriceFloat(TRUE, Zero, 0, "below"),                     \* -0.0000004
    PriceInfinity }

\* what response.json() settles with
JsonOutcomes ==
  { [rejected |-> TRUE, data |-> Object(<<>>)],
    [rejected |-> FALSE, data |-> [kind |-> "null", entries |-> <<>>]],
    [rejected |-> FALSE, data |-> Object(<<>>)],
    [rejected |-> FALSE, data |-> Object(<<Entry(Bitcoin, Number(PriceFloat(FALSE, <<1>>, 0, "zero")))>>)],
    [rejected |-> FALSE, data |-> Object(<<Entry(Solana, Undefined)>>)],
    [rejected |-> FALSE, data |-> Object(<<Entry(Solana, [type |-> "string", value |-> PriceInfinity])>>)] }
  \cup { [rejected |-> FALSE, data |-> Object(<<Entry(Solana, Number(p))>>)] : p \in Prices }

\* Date.now() in milliseconds after the clock has advanced `ticks` times
\* 1762300800123 ms: 2025-11-05T00:00:00.123Z
ClockBase == <<123, 44, 80, 81, 154, 1>>
DateNow(ticks) == AddSmall(ClockBase, ticks * 900)

Requests == 1..MaxReq

-----------------------------------------------------------------------------
(* The state machine *)

EncIdle == [phase |-> "off", p |-> BigNat(<<>>), t |-> BigNat(<<>>),
            out |-> [ok |-> FALSE, buf |-> <<>>],
            back |-> [p |-> BigNat(<<>>), t |-> BigNat(<<>>)]]

\* two handlers given the same request: none outside SpecSeed
TwinIdle == [phase |-> "off"]

Init ==
  /\ handler = NoHandler
  /\ req = [r \in Requests |-> IdleRequest]
  /\ clock = 0
  /\ enc = EncIdle
  /\ twin = TwinIdle

CreateOracleHandler ==
  /\ handler.state = "none"
  /\ \E options \in DistOptions : handler' = createOracleHandler(options)
  /\ UNCHANGED <<req, clock, enc, twin>>

CreateNextJsAppRouterHandler ==
  /\ handler.state = "none"
  /\ \E env \in SrcEnvs : handler' = createNextJsAppRouterHandler(env)
  /\ UNCHANGED <<req, clock, enc, twin>>

\* a caller of the exported handlePriceRequest of src/server.ts with its own options
ImportHandlePriceRequest ==
  /\ handler.state = "none"
  /\ \E options \in SrcOptions : handler' = Ready("src", options)
  /\ UNCHANGED <<req, clock, enc, twin>>

\* a request arrives with one of the given credentials and tokens
StartWith(r, credentials, tokens) ==
  /\ handler.state = "ready"
  /\ req[r].pc = "idle"
  /\ \E cred \in credentials, token \in tokens :
       req' = [req EXCEPT ![r] = StartRequest(handler, cred, token)]
  /\ UNCHANGED <<handler, clock, enc, twin>>

\* the fetch of request r settles with one of the given outcomes
FetchSettleWith(r, outcomes) ==
  /\ req[r].pc = "fetching"
  /\ \E outcome \in outcomes :
       req' = [req EXCEPT ![r] =
                 FetchSettled(handler, [req[r] EXCEPT !.fetched = outcome], outcome)]
  /\ UNCHANGED <<handler, clock, enc, twin>>

\* the token of another request in flight, when there is one
TokenInFlight(r) ==
  LET others == {x \in DOMAIN req \ {r} : req[x].pc \in {"fetching", "parsing", "signing"}}
  IN  IF others = {} THEN req[r].token
      ELSE req[CHOOSE x \in others : TRUE].token

\* the token kept in a variable of the module, which every call overwrites
JsonSettleWithSharedToken(r, outcomes) ==
  /\ req[r].pc = "parsing"
  /\ \E outcome \in outcomes :
       req' = [req EXCEPT ![r] =
                 [JsonSettled(handler,
                              [req[r] EXCEPT !.receivedAt = DateNow(clock),
                                             !.parsed = outcome,
                                             !.token = TokenInFlight(r)],
                              outcome, DateNow(clock))
                    EXCEPT !.token = req[r].token]]
  /\ UNCHANGED <<handler, clock, enc, twin>>

\* response.json() of request r settles with one of the given outcomes
JsonSettleWith(r, outcomes) ==
  /\ req[r].pc = "parsing"
  /\ \E outcome \in outcomes :
       req' = [req EXCEPT ![r] =
                 JsonSettled(handler,
                             [req[r] EXCEPT !.receivedAt = DateNow(clock),
                                            !.parsed = outcome],
                             outcome, DateNow(clock))]
  /\ UNCHANGED <<handler, clock, enc, twin>>

Start(r) == StartWith(r, Credentials, Tokens)

FetchSettle(r) == FetchSettleWith(r, FetchOutcomes)

JsonSettle(r) == JsonSettleWith(r, JsonOutcomes)

SignSettle(r) ==
  /\ req[r].pc = "signing"
  /\ req' = [req EXCEPT ![r] = SignSettled(handler, req[r])]
  /\ UNCHANGED <<handler, clock, enc, twin>>

\* the caller takes the response; the slot is free for the next request
Deliver(r) ==
  /\ req[r].pc = "done"
  /\ req' = [req EXCEPT ![r] = IdleRequest]
  /\ UNCHANGED <<handler, clock, enc, twin>>

Tick ==
  /\ clock < MaxTicks
  /\ clock' = clock + 1
  /\ UNCHANGED <<handler, req, enc, twin>>

Next ==
  \/ CreateOracleHandler
  \/ CreateNextJsAppRouterHandler
  \/ ImportHandlePriceRequest
  \/ \E r \in Requests : Start(r)
  \/ \E r \in Requests : FetchSettle(r)
  \/ \E r \in Requests : JsonSettle(r)
  \/ \E r \in Requests : SignSettle(r)
  \/ \E r \in Requests : Deliver(r)
  \/ Tick

Spec == Init /\ [][Next]_vars

-----------------------------------------------------------------------------
(* The encoding on its own: EncodeMessage applied to chosen (price, timestamp) *)

\* 2^63 and 2^64
Pow63 == <<0, 0, 0, 0, 0, 0, 0, 128>>
Pow64 == MulSmall(Pow63, 2)

EncPrices ==
  { BigNat(Zero), BigNat(<<1>>), BigNat(<<255>>), BigNat(<<0, 1>>),
    BigNat(<<192, 179, 242, 8>>),                      \* 150123456
    BigNat(<<0, 0, 0, 0, 1>>),                         \* 2^32
    BigNat(<<2, 0, 0, 0, 0, 0, 32>>),                  \* 2^53 + 2
    BigNat(Pow63),
    BigNat([i \in 1..FieldBytes |-> ByteBase - 1]),    \* 2^64 - 1
    BigNat(Pow64),                                     \* out of range
    BigNeg(<<1>>) }                                    \* out of range

EncTimestamps ==
  { BigNat(Zero), BigNat(<<1>>),
    BigNat(<<128, 147, 10, 105>>),                     \* 1762300800
    BigNat(<<0, 0, 0, 128>>),                          \* 2^31
    \* 2^63 - 1
    BigNat([i \in 1..FieldBytes |-> IF i = FieldBytes THEN ByteBase \div 2 - 1 ELSE ByteBase - 1]),
    BigNat(Pow63),                                     \* out of range
    BigNeg(<<1>>), BigNeg(<<0, 1>>),                   \* -1, -256
    BigNeg(Pow63),                                     \* -2^63
    BigNeg(AddSmall(Pow63, 1)) }                       \* out of range

NoDecoded == [p |-> BigNat(<<>>), t |-> BigNat(<<>>)]

InitEncode ==
  /\ handler = NoHandler
  /\ req = [r \in Requests |-> IdleRequest]
  /\ clock = 0
  /\ \E p \in EncPrices, t \in EncTimestamps :
       enc = [phase |-> "input", p |-> p, t |-> t,
              out |-> [ok |-> FALSE, buf |-> <<>>], back |-> NoDecoded]
  /\ twin = TwinIdle

Encode ==
  /\ enc.phase = "input"
  /\ enc' = [enc EXCEPT !.phase = "encoded", !.out = EncodeMessage(enc.p, enc.t)]
  /\ UNCHANGED <<handler, req, clock, twin>>

\* a verifier reads the two fields back
Decode ==
  /\ enc.phase = "encoded"
  /\ enc.out.ok
  /\ enc' = [enc EXCEPT !.phase = "decoded",
                        !.back = [p |-> ReadBigUInt64LE(enc.out.buf, PriceOffset),
                                  t |-> ReadBigInt64LE(enc.out.buf, TimestampOffset)]]
  /\ UNCHANGED <<handler, req, clock, twin>>

NextEncode == Encode \/ Decode

SpecEncode == InitEncode /\ [][NextEncode]_vars

-----------------------------------------------------------------------------
(* Properties *)

Done(r) == req[r].pc = "done"

\* the configured set of trusted client keys; omitted counts as empty
Policy == IF handler.options.trustedClientKeys = Null THEN <<>>
          ELSE handler.options.trustedClientKeys[1]

Member(cred) == \E i \in 1..Len(Policy) : Policy[i] = cred

\* C1: with an empty (or omitted) set of trusted client keys no request is
\* answered 401, whatever credential it carries.
C1_EmptyPolicyNeverUnauthorized ==
  \A r \in Requests :
    (handler.state = "ready" /\ Policy = <<>> /\ Done(r)) => req[r].response.status # 401

\* C2 as stated: with a non-empty set, a request is allowed if and only if its
\* credential is present (the empty string included) and equals a member.
C2_AllowedIffPresentMember ==
  \A r \in Requests :
    (Policy # <<>> /\ Done(r)) =>
      /\ req[r].response.status # 401 <=> (req[r].cred # Null /\ Member(req[r].cred[1]))
      /\ req[r].response.status = 401 => req[r].response = Unauthorized

\* C2 amended: with a non-empty set, a request is allowed if and only if its
\* credential is present, is not the empty string and equals a member (exactly,
\* case-sensitively); every other request is answered 401 {"error":"Unauthorized"}.
C2_AllowedIffNonEmptyMember ==
  \A r \in Requests :
    (Policy # <<>> /\ Done(r)) =>
      /\ req[r].response.status # 401
           <=> (req[r].cred # Null /\ req[r].cred[1] # <<>> /\ Member(req[r].cred[1]))
      /\ req[r].response.status = 401 => req[r].response = Unauthorized

\* against the set {"k1", "k2"} the credential "K1" was denied
C2_Witness ==
  \E r \in Requests :
    /\ Policy = <<K1, K2>>
    /\ Done(r) /\ req[r].cred = Some(UpperK1) /\ req[r].token = Some(Solana)
    /\ req[r].response = Unauthorized

\* C3: a handler exists only with a key of exactly 64 bytes, and sign is never
\* called with a seed that is not exactly 32 bytes.
C3_KeyAlways64Bytes ==
  /\ handler.state = "ready" => Len(handler.options.oraclePrivateKey[1]) = KeyLength
  /\ \A r \in Requests : req[r].signCalls > 0 => Len(req[r].seed) = SeedLength

\* the seed of the configured key: its first 32 bytes
ConfiguredSeed == SubSeq(handler.options.oraclePrivateKey[1], 1, SeedLength)

\* C4: in every 200 response, price and timestamp are the decimal strings of the
\* integers held in bytes [0,8) and [8,16) of the signed message, and signature is
\* the hex of the Ed25519 signature, under the first 32 bytes of the key, of the
\* Keccak-256 hash of that message.
C4_ReportedPairIsSignedPair ==
  \A r \in Requests :
    (Done(r) /\ req[r].response.status = 200) =>
      /\ Len(req[r].message) = MessageLength
      /\ req[r].response.price
           = BigIntToString(ReadBigUInt64LE(req[r].message, PriceOffset))
      /\ req[r].response.timestamp
           = BigIntToString(ReadBigInt64LE(req[r].message, TimestampOffset))
      /\ req[r].response.signature
           = ToHex(Ed25519Sign(Keccak256(req[r].message), ConfiguredSeed))

\* the scenario of the specification: 150.123456 answered as "150123456"
C4_Witness ==
  \E r \in Requests :
    /\ Done(r) /\ req[r].response.status = 200
    /\ req[r].response.price = <<"1", "5", "0", "1", "2", "3", "4", "5", "6">>
    /\ req[r].response.timestamp = <<"1", "7", "6", "2", "3", "0", "0", "8", "0", "1">>

NoToken(r) == req[r].token = Null \/ req[r].token = Some(<<>>)
NoCredential(r) == req[r].cred = Null \/ req[r].cred = Some(<<>>)

\* C5: a request that passes the gate with a missing or empty token is answered
\* 400 {"error":"Token parameter is required"}, never the 500 of an unknown token,
\* and only such a request is; a request that fails the gate is answered 401 even
\* when its token is missing.
C5_MissingTokenIs400 ==
  \A r \in Requests :
    Done(r) =>
      /\ (NoToken(r) /\ req[r].response.status # 401) => req[r].response = TokenRequired
      /\ req[r].response.status = 400 => (NoToken(r) /\ req[r].response = TokenRequired)
      /\ (NoToken(r) /\ NoCredential(r) /\ Policy # <<>>) => req[r].response = Unauthorized

\* an accepted credential with the empty token was answered 400
C5_Witness ==
  \E r \in Requests :
    /\ Policy # <<>>
    /\ Done(r) /\ req[r].token = Some(<<>>) /\ req[r].cred = Some(K1)
    /\ req[r].response = TokenRequired

\* C6: a request answered 401 has issued no upstream fetch, has not read the
\* private key and has called no signing step.
C6_DenyBeforeFetchAndKey ==
  \A r \in Requests :
    (Done(r) /\ req[r].response.status = 401) =>
      /\ req[r].fetches = 0
      /\ req[r].keyReads = 0
      /\ req[r].signCalls = 0
      /\ req[r].seed = <<>>

C6_Witness ==
  \E r \in Requests :
    /\ Done(r) /\ req[r].response = Unauthorized
    /\ req[r].token = Some(Solana) /\ req[r].cred = Some(UpperK1)

NotFoundTexts == {"' not found in CoinGecko response", "' not found in data source response"}

BadStatus(r) == req[r].upstreamStatus # 0 /\ ~ResponseOk(req[r].upstreamStatus)

\* C7: every failure in the pipeline is answered 500 {"error":"Internal Server
\* Error: <message>"} and never leaves the handler as an exception; a non-success
\* upstream status gives a message with that status, and an upstream body without a
\* numeric usd price for the token gives a message containing "not found".
C7_PipelineFailureIs500 ==
  \A r \in Requests :
    /\ ~req[r].thrown
    /\ (Done(r) /\ req[r].fetches > 0) =>
         /\ req[r].response.status \in {200, 500}
         /\ req[r].response.status = 500 =>
              /\ req[r].response.error.prefix = "Internal Server Error: "
              /\ req[r].response.error.message.text # ""
         /\ BadStatus(r) =>
              /\ req[r].response.status = 500
              /\ req[r].response.error.message.status = req[r].upstreamStatus
         /\ (req[r].body \in {"null", "object"} /\ req[r].priceFloat.type # "number") =>
              /\ req[r].response.status = 500
              /\ req[r].response.error.message.rest \in NotFoundTexts
         /\ (req[r].signCalls > 0 /\ Len(req[r].seed) # SeedLength) =>
              req[r].response.status = 500

RECURSIVE ByteAt(_, _)
\* floor(m / 256^i) mod 256
ByteAt(m, i) == IF i = 0 THEN ModSmall(m, ByteBase) ELSE ByteAt(DivSmall(m, ByteBase), i - 1)

\* the value of a little-endian byte string as a natural: sum of b[i] * 256^i
RECURSIVE ValueLE(_)
ValueLE(bytes) ==
  IF bytes = <<>> THEN <<>>
  ELSE AddSmall(MulSmall(ValueLE(Tail(bytes)), ByteBase), Head(bytes))

RECURSIVE AddNat(_, _, _)
\* a + b + carry for two naturals
AddNat(a, b, c) ==
  IF a = <<>> /\ b = <<>> THEN (IF c = 0 THEN <<>> ELSE <<c>>)
  ELSE LET x == IF a = <<>> THEN 0 ELSE Head(a)
           y == IF b = <<>> THEN 0 ELSE Head(b)
           v == x + y + c
       IN  <<v % ByteBase>> \o AddNat(IF a = <<>> THEN <<>> ELSE Tail(a),
                                      IF b = <<>> THEN <<>> ELSE Tail(b), v \div ByteBase)

\* C8: for a price in the unsigned and a timestamp in the signed 64-bit range the
\* message is exactly 16 bytes, byte i of bytes [0,8) is floor(p / 256^i) mod 256,
\* bytes [8,16) are the little-endian two's complement of t (their value is t, or
\* 2^64 + t for a negative t), and reading the two fields back gives p and t.
C8_EncodeIsLittleEndianRoundTrip ==
  (enc.phase \in {"encoded", "decoded"} /\ InU64Range(enc.p) /\ InI64Range(enc.t)) =>
    LET buf == enc.out.buf
        tField == SubSeq(buf, TimestampOffset + 1, TimestampOffset + FieldBytes)
    IN  /\ enc.out.ok
        /\ Len(buf) = MessageLength
        /\ \A i \in 0..(FieldBytes - 1) : buf[PriceOffset + i + 1] = ByteAt(enc.p.mag, i)
        /\ IF enc.t.neg THEN Trim(AddNat(ValueLE(tField), enc.t.mag, 0)) = Pow64
                        ELSE ValueLE(tField) = enc.t.mag
        /\ \A i \in 0..(FieldBytes - 1) :
             ~enc.t.neg => buf[TimestampOffset + i + 1] = ByteAt(enc.t.mag, i)
        /\ enc.phase = "decoded" => (enc.back.p = enc.p /\ enc.back.t = enc.t)

\* 2^64 - 1 and -2^63 encoded and read back
C8_Witness ==
  /\ enc.phase = "decoded"
  /\ enc.p = BigNat([i \in 1..FieldBytes |-> ByteBase - 1])
  /\ enc.t = BigNeg(Pow63)
  /\ enc.out.buf[TimestampOffset + FieldBytes] = ByteBase \div 2

\* the scaled, rounded upstream price of a request
Rounded(r) == MathRound(Scale(req[r].priceFloat.value))

OutOfU64(x) == x.finite /\ ((x.neg /\ x.int # <<>>) \/ Len(Trim(x.int)) > FieldBytes)

\* C9: a request whose scaled, rounded price is negative or above 2^64 - 1 is
\* answered 500, never 200; the price of every 200 response lies in [0, 2^64 - 1]
\* and is the rounded price itself, not its residue modulo 2^64.
C9_NoWrappedPrice ==
  \A r \in Requests :
    Done(r) =>
      /\ (req[r].priceFloat.type = "number" /\ OutOfU64(Rounded(r))) =>
           req[r].response.status = 500
      /\ req[r].response.status = 200 =>
           /\ req[r].priceFloat.type = "number"
           /\ ~OutOfU64(Rounded(r))
           /\ ~req[r].priceU64.neg /\ Len(req[r].priceU64.mag) <= FieldBytes
           /\ req[r].response.price = BigIntToString(BigNat(Rounded(r).int))

\* an upstream price of 2^64 micro-dollars was refused
C9_Witness ==
  \E r \in Requests :
    /\ Done(r) /\ req[r].response.status = 500
    /\ req[r].priceFloat.type = "number" /\ req[r].priceU64 = BigNat(Pow64)

\* C10: a request that passes the gate with a non-empty token issues exactly one
\* upstream fetch before it is answered, whatever requests came before: never
\* none (a 200 response carries the price of the request's own fetch), never two.
C10_ExactlyOneFetch ==
  \A r \in Requests :
    /\ req[r].fetches <= 1
    /\ req[r].pc \in {"fetching", "parsing", "signing"} => req[r].fetches = 1
    /\ Done(r) =>
         /\ (~NoToken(r) /\ req[r].response.status # 401) => req[r].fetches = 1
         /\ req[r].response.status \in {200, 500} => req[r].fetches = 1
         /\ req[r].response.status = 200 =>
              /\ req[r].upstreamStatus = 200
              /\ req[r].priceFloat.type = "number"
              /\ req[r].priceU64 = Quantize(req[r].priceFloat.value).value

\* a fetch that failed with status 429 was answered after that one fetch
C10_Witness ==
  \E r \in Requests :
    /\ Done(r) /\ req[r].response.status = 500
    /\ req[r].upstreamStatus = 429 /\ req[r].fetches = 1

-----------------------------------------------------------------------------
(* C11 *)

\* a <= b for two non-negative integers
LessEq(a, b) ==
  LET x == Trim(a)
      y == Trim(b)
  IN  \/ Len(x) < Len(y)
      \/ /\ Len(x) = Len(y)
         /\ \/ x = y
            \/ \E i \in 1..Len(x) : /\ x[i] < y[i]
                                    /\ \A j \in (i + 1)..Len(x) : x[j] = y[j]

\* the request got a numeric price from an upstream answer with an ok status
NumericPrice(r) ==
  /\ ResponseOk(req[r].upstreamStatus)
  /\ req[r].body = "object"
  /\ req[r].priceFloat.type = "number"

-----------------------------------------------------------------------------
(* C12 *)

\* The handler's own pending step always settles: sign() computes locally.
\* fetch(url) is called without a signal or a timer and response.json() reads
\* the upstream body, so nothing in the code makes either of them settle.
SpecLive == Spec /\ \A r \in Requests : WF_vars(SignSettle(r))

\* the upstream answers every fetch and delivers every body
SpecUpstreamAnswers ==
  SpecLive /\ \A r \in Requests : WF_vars(FetchSettle(r)) /\ WF_vars(JsonSettle(r))

Statuses == {200, 400, 401, 500}

Pending(r) == req[r].pc \in {"fetching", "parsing", "signing"}

\* C12: every request is answered with one of 200, 400, 401 and 500, also
\* when the upstream price source never answers.
C12_EveryRequestAnswered ==
  /\ [](\A r \in Requests : Done(r) => req[r].response.status \in Statuses /\ ~req[r].thrown)
  /\ \A r \in Requests : Pending(r) ~> Done(r)

\* what holds of the code: a request is answered once the upstream has answered
C12_AnsweredIfUpstreamAnswers ==
  /\ [](\A r \in Requests : Done(r) => req[r].response.status \in Statuses /\ ~req[r].thrown)
  /\ \A r \in Requests : req[r].pc = "signing" ~> Done(r)

-----------------------------------------------------------------------------
(* C13: requests in flight together on one handler *)

\* number of requests one handler serves at the same time
MaxConcurrent == 2

Concurrent == 1..MaxConcurrent

\* a handler of either build with the trusted keys "k1" and "k2"
ConcurrentHandlers ==
  { createOracleHandler(Options(Some(KeyA), Some(<<K1, K2>>), "")),
    createNextJsAppRouterHandler(Env(Some(KeyJsonA), Some(K1 \o <<",">> \o K2))) }

ConcurrentCredentials == {Some(K1), Some(UpperK1)}
ConcurrentTokens == {Some(Solana), Some(Bitcoin)}

\* { sol: 150.123456, btc: 2.9999996 } and { sol: 150.123456 }
ConcurrentJsonOutcomes ==
  { [rejected |-> FALSE,
     data |-> Object(<<Entry(Solana, Number(PriceFloat(FALSE, <<150>>, 123456, "zero"))),
                       Entry(Bitcoin, Number(PriceFloat(FALSE, <<2>>, 999999, "above")))>>)],
    [rejected |-> FALSE,
     data |-> Object(<<Entry(Solana, Number(PriceFloat(FALSE, <<150>>, 123456, "zero")))>>)] }

InitConcurrent ==
  /\ handler = NoHandler
  /\ req = [r \in Concurrent |-> IdleRequest]
  /\ clock = 0
  /\ enc = EncIdle
  /\ twin = TwinIdle

CreateHandlerConcurrent ==
  /\ handler.state = "none"
  /\ \E h \in ConcurrentHandlers : handler' = h
  /\ UNCHANGED <<req, clock, enc, twin>>

StartConcurrent(r) == StartWith(r, ConcurrentCredentials, ConcurrentTokens)

FetchSettleConcurrent(r) == FetchSettleWith(r, FetchOutcomes)

JsonSettleConcurrent(r) == JsonSettleWith(r, ConcurrentJsonOutcomes)

NextConcurrent ==
  \/ CreateHandlerConcurrent
  \/ \E r \in Concurrent : StartConcurrent(r)
  \/ \E r \in Concurrent : FetchSettleConcurrent(r)
  \/ \E r \in Concurrent : JsonSettleConcurrent(r)
  \/ \E r \in Concurrent : SignSettle(r)
  \/ \E r \in Concurrent : Deliver(r)
  \/ Tick

SpecConcurrent == InitConcurrent /\ [][NextConcurrent]_vars

\* the record of a request that runs alone on handler h, from its arrival as far
\* as the settlements it is given take it
RunAlone(h, cred, token, fetched, parsed, nowMs) ==
  LET q0 == StartRequest(h, cred, token)
      q1 == IF q0.pc = "fetching" /\ fetched # NoFetch
            THEN FetchSettled(h, q0, fetched) ELSE q0
      q2 == IF q1.pc = "parsing" /\ parsed # NoJson
            THEN JsonSettled(h, q1, parsed, nowMs) ELSE q1
  IN  IF q2.pc = "signing" THEN SignSettled(h, q2) ELSE q2

\* what a request holds apart from the record of what it was given
Locals(q) == [q EXCEPT !.fetched = NoFetch, !.parsed = NoJson, !.receivedAt = <<>>]

\* C13: whatever the other requests in flight do, the response of a request
\* is the response of the same request run alone with the same credential,
\* token, upstream result and clock reading, a request in flight holds only
\* what its own inputs gave it, and no step of a request changes the
\* configured key or the set of trusted keys.
C13_ConcurrentRequestsIndependent ==
  /\ [](\A r \in DOMAIN req :
          LET q == req[r]
              alone == RunAlone(handler, q.cred, q.token, q.fetched, q.parsed, q.receivedAt)
          IN  /\ Done(r) => q.response = alone.response
              /\ q.pc \in {"fetching", "parsing"} =>
                   Locals(q) = Locals(RunAlone(handler, q.cred, q.token, q.fetched,
                                               NoJson, <<>>))
              /\ q.pc = "signing" =>
                   Locals(q) = Locals(JsonSettled(handler,
                                  RunAlone(handler, q.cred, q.token, q.fetched, NoJson, <<>>),
                                  q.parsed, q.receivedAt)))
  /\ [][handler.state = "ready" => handler' = handler]_vars

\* request 1 was answered with the price of sol while request 2, given the price
\* of btc before it, was still waiting for its signature
C13_Witness ==
  /\ Cardinality(DOMAIN req) >= 2
  /\ Done(1) /\ req[1].response.status = 200 /\ req[1].token = Some(Solana)
  /\ req[1].receivedAt = DateNow(1)
  /\ req[2].pc = "signing" /\ req[2].token = Some(Bitcoin)
  /\ req[2].receivedAt = DateNow(0)
  /\ req[2].priceU64 # req[1].priceU64
  /\ req[2].timestampI64 # req[1].timestampI64

-----------------------------------------------------------------------------
(* C14: one request given to two handlers *)

\* keys of 64 bytes: a fills bytes [0, 32) and b bytes [32, 64)
SeedFills == {1, 7}
TailFills == {2, 3}

\* the options of a handler of the given build with the given key
TwinHandler(variant, key) ==
  IF variant = "dist" THEN createOracleHandler(Options(Some(key), Some(<<K1>>), ""))
  ELSE Ready("src", Options(Some(key), Some(<<K1>>), ""))

TwinCredentials == {Some(K1), Some(UpperK1)}
TwinTokens == {Null, Some(Solana)}

InitSeed ==
  /\ handler = NoHandler
  /\ req = [r \in Requests |-> IdleRequest]
  /\ clock = 0
  /\ enc = EncIdle
  /\ \E variant \in {"dist", "src"}, a \in SeedFills, b1 \in TailFills, b2 \in TailFills,
        cred \in TwinCredentials, token \in TwinTokens,
        fetched \in FetchOutcomes, parsed \in JsonOutcomes, ticks \in 0..MaxTicks :
       twin = [phase |-> "input",
               h1 |-> TwinHandler(variant, KeyBytes(KeyLength, 1, b1)),
               h2 |-> TwinHandler(variant, KeyBytes(KeyLength, a, b2)),
               cred |-> cred, token |-> token,
               fetched |-> fetched, parsed |-> parsed, nowMs |-> DateNow(ticks),
               out1 |-> NoResponse, out2 |-> NoResponse]

\* both handlers handle the request to its response
HandleOnBoth ==
  /\ twin.phase = "input"
  /\ twin' = [twin EXCEPT
       !.phase = "done",
       !.out1 = RunAlone(twin.h1, twin.cred, twin.token,
                         twin.fetched, twin.parsed, twin.nowMs).response,
       !.out2 = RunAlone(twin.h2, twin.cred, twin.token,
                         twin.fetched, twin.parsed, twin.nowMs).response]
  /\ UNCHANGED <<handler, req, clock, enc>>

NextSeed == HandleOnBoth

SpecSeed == InitSeed /\ [][NextSeed]_vars

TwinKey(h) == h.options.oraclePrivateKey[1]

\* the two keys have the same bytes [0, 32)
SameSeed == SubSeq(TwinKey(twin.h1), 1, SeedLength) = SubSeq(TwinKey(twin.h2), 1, SeedLength)

\* the two keys have the same bytes [32, 64)
SameTail ==
  SubSeq(TwinKey(twin.h1), SeedLength + 1, KeyLength)
    = SubSeq(TwinKey(twin.h2), SeedLength + 1, KeyLength)

\* C14: two handlers whose 64-byte keys have the same first 32 bytes give the
\* same request, with the same upstream result and clock reading, the same
\* response: status, price, timestamp and signature; with the same key, the
\* request repeated gets the same signature.
C14_ResponseDependsOnSeedOnly ==
  twin.phase = "done" /\ SameSeed => twin.out1 = twin.out2

\* two keys that differ only in bytes [32, 64) signed the same price with the
\* same signature
C14_Witness ==
  /\ twin.phase = "done"
  /\ SameSeed /\ ~SameTail
  /\ twin.out1.status = 200
  /\ twin.out1.signature.data.alg = "ed25519"
  /\ twin.out1.signature = twin.out2.signature
  /\ twin.out1 = twin.out2

=============================================================================
